---- MODULE Spec2Model ----
(***************************************************************************)
(* Model of src/ratelimit.py: five rate limiters (fixed window, sliding    *)
(* window log, sliding window counter, token bucket, leaky bucket), each a *)
(* defaultdict of per-key records behind one threading.Lock.               *)
(*                                                                         *)
(* One behaviour follows one limiter instance (variable limiter names its  *)
(* class) that several threads call concurrently.  is_allowed runs under   *)
(* the lock; get_stats takes no lock, so its reads interleave with the     *)
(* writes of is_allowed, one shared read or write per step.                *)
(*                                                                         *)
(* Time is counted in clock ticks.  refill_rate and leak_rate are          *)
(* rationals with denominator RateDen; the token bucket's tokens field is  *)
(* stored multiplied by RateDen, and the sliding window counter's          *)
(* weighted_count is stored multiplied by window_size, so all arithmetic   *)
(* is exact integer arithmetic (the code computes the same in doubles).    *)
(***************************************************************************)
EXTENDS Integers, Sequences, FiniteSets, TLC

\* ---- bounds of the model
MaxTime == 3
CfgLimit == 1
CfgWindow == 2
CfgCapacity == 1
CfgRate == 1
RateDen == 2
MaxCost == 2
MaxCalls == 3

Threads == {"t1", "t2"}
Keys == {"k1", "k2"}
Classes == {"FixedWindow", "SlidingWindowLog", "SlidingWindowCounter",
            "TokenBucket", "LeakyBucket"}
NoThread == "free"
NoRec == [none |-> 0]
None == -1

VARIABLES
    limiter,       \* class of the limiter instance, "none" before __init__
    limit,         \* self.limit
    window_size,   \* self.window_size, in ticks
    capacity,      \* self.capacity
    refill_rate,   \* self.refill_rate * RateDen, tokens per tick
    leak_rate,     \* self.leak_rate * RateDen, requests per tick
    now,           \* what time.time() returns
    lock,          \* self.lock: the thread holding it, or NoThread
    heap,          \* the per-key record objects ever created, by object id
    store,         \* self.counters / logs / windows / buckets: key -> object id
    frame,         \* each thread's call frame: position and locals
    admits,        \* history: per key, the current_time of every admitted call
    calls          \* history: the number of calls made so far

vars == <<limiter, limit, window_size, capacity, refill_rate, leak_rate,
          now, lock, heap, store, frame, admits, calls>>
config == <<limiter, limit, window_size, capacity, refill_rate, leak_rate>>

\* ---- arithmetic as Python computes it

\* a // b on numbers: floor division, b # 0
FloorDiv(a, b) ==
    IF b > 0 THEN a \div b ELSE (0 - a) \div (0 - b)

\* int(a / b) for b > 0: truncation toward zero
TruncDiv(a, b) ==
    IF a >= 0 THEN a \div b ELSE 0 - ((0 - a) \div b)

Min(a, b) == IF a <= b THEN a ELSE b
Max(a, b) == IF a >= b THEN a ELSE b

\* ---- call frames

IdleFrame ==
    [pc |-> "idle", op |-> "", key |-> "", current_time |-> 0, ref |-> 0,
     cost |-> 0, n |-> 0, acc |-> 0, mutated |-> FALSE, ret |-> FALSE,
     exc |-> "", missed |-> FALSE,
     pre |-> NoRec, stats |-> NoRec]

Rec(t) == heap[frame[t].ref]

\* int(current_time // self.window_size) of the call in frame f
CurrentWindow(f) == FloorDiv(f.current_time, window_size)

\* ---- the defaultdict factories

DefaultRecord ==
    CASE limiter = "FixedWindow" -> [count |-> 0, window_start |-> 0]
      [] limiter = "SlidingWindowLog" -> [log |-> <<>>]
      [] limiter = "SlidingWindowCounter" ->
            [current |-> 0, previous |-> 0, current_start |-> 0]
      [] limiter = "TokenBucket" ->
            [tokens |-> capacity * RateDen, last_refill |-> now]
      [] limiter = "LeakyBucket" -> [queue |-> <<>>, last_leak |-> now]

\* the first statement of each method's body after the record lookup
BodyStart(op) ==
    IF op = "is_allowed"
    THEN CASE limiter = "FixedWindow" -> "fw_window"
           [] limiter = "SlidingWindowLog" -> "log_purge"
           [] limiter = "SlidingWindowCounter" -> "swc_slide"
           [] limiter = "TokenBucket" -> "tb_refill"
           [] limiter = "LeakyBucket" -> "lb_leak"
    ELSE CASE limiter = "FixedWindow" -> "fws_made"
           [] limiter = "SlidingWindowLog" -> "logs_iter"
           [] limiter = "SlidingWindowCounter" -> "swcs_prev"
           [] limiter = "TokenBucket" -> "tbs_tokens"
           [] limiter = "LeakyBucket" -> "lbs_size"

\* current_time // self.window_size comes before the record lookup in
\* FixedWindow.is_allowed and in both methods of SlidingWindowCounter, and
\* raises ZeroDivisionError for a window_size of 0
DividesOnEntry(op) ==
    \/ limiter = "SlidingWindowCounter"
    \/ limiter = "FixedWindow" /\ op = "is_allowed"

EntryExc(op) ==
    IF DividesOnEntry(op) /\ window_size = 0 THEN "ZeroDivisionError" ELSE ""

EntryPc(op) == IF EntryExc(op) = "" THEN "lookup" ELSE "raised"

\* ---- construction

\* __init__ with valid arguments: the state after construction
Constructed(cls) ==
    /\ limiter = cls
    /\ limit = (IF cls \in {"FixedWindow", "SlidingWindowLog", "SlidingWindowCounter"}
                THEN CfgLimit ELSE 0)
    /\ window_size = (IF cls \in {"FixedWindow", "SlidingWindowLog", "SlidingWindowCounter"}
                      THEN CfgWindow ELSE 0)
    /\ capacity = (IF cls \in {"TokenBucket", "LeakyBucket"} THEN CfgCapacity ELSE 0)
    /\ refill_rate = (IF cls = "TokenBucket" THEN CfgRate ELSE 0)
    /\ leak_rate = (IF cls = "LeakyBucket" THEN CfgRate ELSE 0)

Fresh ==
    /\ now = 0
    /\ lock = NoThread
    /\ heap = <<>>
    /\ store = <<>>
    /\ frame = [t \in Threads |-> IdleFrame]
    /\ admits = [k \in Keys |-> <<>>]
    /\ calls = 0

Init ==
    /\ \E cls \in Classes : Constructed(cls)
    /\ Fresh

\* ---- the clock

Tick ==
    /\ now < MaxTime
    /\ now' = now + 1
    /\ UNCHANGED <<config, lock, heap, store, frame, admits, calls>>

\* ---- entering a call

\* is_allowed(key[, tokens_requested]): with self.lock; current_time = time.time()
IsAllowedCall(t, k, c) ==
    /\ limiter # "none"
    /\ frame[t].pc = "idle"
    /\ calls < MaxCalls
    /\ lock = NoThread
    /\ lock' = t
    /\ calls' = calls + 1
    /\ frame' = [frame EXCEPT ![t] =
                    [IdleFrame EXCEPT !.pc = EntryPc("is_allowed"),
                                      !.exc = EntryExc("is_allowed"),
                                      !.op = "is_allowed",
                                      !.key = k, !.cost = c, !.current_time = now]]
    /\ UNCHANGED <<config, now, heap, store, admits>>

\* get_stats(key): no lock; the two sliding windows read the clock first
GetStatsCall(t, k) ==
    /\ limiter # "none"
    /\ frame[t].pc = "idle"
    /\ calls < MaxCalls
    /\ calls' = calls + 1
    /\ frame' = [frame EXCEPT ![t] =
                    [IdleFrame EXCEPT !.pc = EntryPc("get_stats"),
                                      !.exc = EntryExc("get_stats"),
                                      !.op = "get_stats", !.key = k,
                                      !.current_time =
                                          IF limiter \in {"SlidingWindowLog", "SlidingWindowCounter"}
                                          THEN now ELSE 0]]
    /\ UNCHANGED <<config, now, lock, heap, store, admits>>

\* self.<dict>[key]: a hit returns the mapped record; a miss calls the
\* default factory (which reads the clock for the two buckets) and has the
\* new record stored by SetItem, a step later
Lookup(t) ==
    /\ frame[t].pc = "lookup"
    /\ IF frame[t].key \in DOMAIN store
       THEN /\ frame' = [frame EXCEPT ![t].ref = store[frame[t].key],
                                      ![t].pre = IF frame[t].op = "is_allowed"
                                                 THEN heap[store[frame[t].key]] ELSE NoRec,
                                      ![t].pc = BodyStart(frame[t].op)]
            /\ heap' = heap
       ELSE /\ heap' = Append(heap, DefaultRecord)
            /\ frame' = [frame EXCEPT ![t].ref = Len(heap) + 1,
                                      ![t].missed = TRUE,
                                      ![t].pre = IF frame[t].op = "is_allowed"
                                                 THEN DefaultRecord ELSE NoRec,
                                      ![t].pc = "setitem"]
    /\ UNCHANGED <<config, now, lock, store, admits, calls>>

\* a table that keeps the new record under every key
SetItemForAllKeys(t) ==
    /\ frame[t].pc = "setitem"
    /\ store' = [k \in Keys |-> frame[t].ref]
    /\ frame' = [frame EXCEPT ![t].pc = BodyStart(frame[t].op)]
    /\ UNCHANGED <<config, now, lock, heap, admits, calls>>

\* defaultdict.__missing__ stores the record the factory returned,
\* whatever the key maps to by now
SetItem(t) ==
    /\ frame[t].pc = "setitem"
    /\ store' = [k \in DOMAIN store \cup {frame[t].key} |->
                    IF k = frame[t].key THEN frame[t].ref ELSE store[k]]
    /\ frame' = [frame EXCEPT ![t].pc = BodyStart(frame[t].op)]
    /\ UNCHANGED <<config, now, lock, heap, admits, calls>>

\* leaving the with block and returning frame[t].ret
Release(t) ==
    /\ frame[t].pc = "release"
    /\ lock' = NoThread
    /\ frame' = [frame EXCEPT ![t] = IdleFrame]
    /\ UNCHANGED <<config, now, heap, store, admits, calls>>

\* get_stats returning frame[t].stats
Return(t) ==
    /\ frame[t].pc = "return"
    /\ frame' = [frame EXCEPT ![t] = IdleFrame]
    /\ UNCHANGED <<config, now, lock, heap, store, admits, calls>>

\* a decision that charges the request whether or not it admits it
DecideChargesRejected(t, allowed, rec) ==
    /\ heap' = [heap EXCEPT ![frame[t].ref] = rec]
    /\ admits' = IF allowed
                 THEN [admits EXCEPT ![frame[t].key] = Append(@, frame[t].current_time)]
                 ELSE admits
    /\ frame' = [frame EXCEPT ![t].ret = allowed, ![t].pc = "release"]
    /\ UNCHANGED <<config, now, lock, store, calls>>

\* the admission decision of the is_allowed bodies: commit rec and record
\* the admission, or reject and leave the record alone
Decide(t, allowed, rec) ==
    /\ heap' = IF allowed THEN [heap EXCEPT ![frame[t].ref] = rec] ELSE heap
    /\ admits' = IF allowed
                 THEN [admits EXCEPT ![frame[t].key] = Append(@, frame[t].current_time)]
                 ELSE admits
    /\ frame' = [frame EXCEPT ![t].ret = allowed, ![t].pc = "release"]
    /\ UNCHANGED <<config, now, lock, store, calls>>

\* ---- FixedWindowRateLimiter.is_allowed

\* a window change that carries the count over into the new window
FwWindowKeepsCount(t) ==
    /\ frame[t].pc = "fw_window"
    /\ heap' = heap
    /\ frame' = [frame EXCEPT ![t].pc =
                    IF Rec(t).window_start # CurrentWindow(frame[t])
                    THEN "fw_start" ELSE "fw_admit"]
    /\ UNCHANGED <<config, now, lock, store, admits, calls>>

\* if counter_data['window_start'] != current_window: counter_data['count'] = 0
FwWindow(t) ==
    /\ frame[t].pc = "fw_window"
    /\ IF Rec(t).window_start # CurrentWindow(frame[t])
       THEN /\ heap' = [heap EXCEPT ![frame[t].ref].count = 0]
            /\ frame' = [frame EXCEPT ![t].pc = "fw_start"]
       ELSE /\ heap' = heap
            /\ frame' = [frame EXCEPT ![t].pc = "fw_admit"]
    /\ UNCHANGED <<config, now, lock, store, admits, calls>>

\* counter_data['window_start'] = current_window
FwStart(t) ==
    /\ frame[t].pc = "fw_start"
    /\ heap' = [heap EXCEPT ![frame[t].ref].window_start = CurrentWindow(frame[t])]
    /\ frame' = [frame EXCEPT ![t].pc = "fw_admit"]
    /\ UNCHANGED <<config, now, lock, store, admits, calls>>

FwAllowed(rec) == rec.count < limit

\* if counter_data['count'] < self.limit: count += 1; return True
FwAdmit(t) ==
    /\ frame[t].pc = "fw_admit"
    /\ Decide(t, FwAllowed(Rec(t)), [Rec(t) EXCEPT !.count = @ + 1])

\* ---- FixedWindowRateLimiter.get_stats

\* 'requests_made': counter_data['count']
FwsMade(t) ==
    /\ frame[t].pc = "fws_made"
    /\ frame' = [frame EXCEPT ![t].stats = [requests_made |-> Rec(t).count],
                              ![t].pc = "fws_remaining"]
    /\ UNCHANGED <<config, now, lock, heap, store, admits, calls>>

\* 'limit': self.limit, 'remaining': max(0, self.limit - counter_data['count'])
FwsRemaining(t) ==
    /\ frame[t].pc = "fws_remaining"
    /\ frame' = [frame EXCEPT ![t].stats =
                    [requests_made |-> frame[t].stats.requests_made,
                     limit |-> limit,
                     remaining |-> Max(0, limit - Rec(t).count)],
                              ![t].pc = "fws_start"]
    /\ UNCHANGED <<config, now, lock, heap, store, admits, calls>>

\* 'window_start': counter_data['window_start']
FwsStart(t) ==
    /\ frame[t].pc = "fws_start"
    /\ frame' = [frame EXCEPT ![t].stats =
                    [requests_made |-> frame[t].stats.requests_made,
                     limit |-> frame[t].stats.limit,
                     remaining |-> frame[t].stats.remaining,
                     window_start |-> Rec(t).window_start],
                              ![t].pc = "return"]
    /\ UNCHANGED <<config, now, lock, heap, store, admits, calls>>

\* ---- exceptions

\* an exception leaves the method; the with block releases the lock
Unwind(t) ==
    /\ frame[t].pc = "raised"
    /\ lock' = IF lock = t THEN NoThread ELSE lock
    /\ frame' = [frame EXCEPT ![t] = IdleFrame]
    /\ UNCHANGED <<config, now, heap, store, admits, calls>>

\* ---- SlidingWindowLogRateLimiter.is_allowed

\* a deque iterator raises once the deque it walks was appended to or
\* popped from (deque.state differs from the state the iterator saw)
Invalidate(fr, t) ==
    [tt \in Threads |->
        IF tt # t /\ fr[tt].pc = "logs_next" /\ fr[tt].ref = fr[t].ref
        THEN [fr[tt] EXCEPT !.mutated = TRUE]
        ELSE fr[tt]]

\* request_log[0] < cutoff_time
LogExpired(ts, f) == ts < f.current_time - window_size

\* while request_log and request_log[0] < cutoff_time: request_log.popleft()
LogPurge(t) ==
    /\ frame[t].pc = "log_purge"
    /\ IF Rec(t).log # <<>> /\ LogExpired(Head(Rec(t).log), frame[t])
       THEN /\ heap' = [heap EXCEPT ![frame[t].ref].log = Tail(@)]
            /\ frame' = Invalidate(frame, t)
       ELSE /\ heap' = heap
            /\ frame' = [frame EXCEPT ![t].pc = "log_admit"]
    /\ UNCHANGED <<config, now, lock, store, admits, calls>>

LogAllowedOffByOne(rec) == Len(rec.log) <= limit

LogAllowed(rec) == Len(rec.log) < limit

\* if len(request_log) < self.limit: request_log.append(current_time); return True
LogAdmit(t) ==
    /\ frame[t].pc = "log_admit"
    /\ heap' = IF LogAllowed(Rec(t))
               THEN [heap EXCEPT ![frame[t].ref].log = Append(@, frame[t].current_time)]
               ELSE heap
    /\ admits' = IF LogAllowed(Rec(t))
                 THEN [admits EXCEPT ![frame[t].key] = Append(@, frame[t].current_time)]
                 ELSE admits
    /\ frame' = [(IF LogAllowed(Rec(t)) THEN Invalidate(frame, t) ELSE frame)
                    EXCEPT ![t].ret = LogAllowed(Rec(t)), ![t].pc = "release"]
    /\ UNCHANGED <<config, now, lock, store, calls>>

\* ---- SlidingWindowLogRateLimiter.get_stats

\* iter(request_log) for the generator of line 85
LogsIter(t) ==
    /\ frame[t].pc = "logs_iter"
    /\ frame' = [frame EXCEPT ![t].n = Len(Rec(t).log), ![t].acc = 0,
                              ![t].mutated = FALSE, ![t].pc = "logs_next"]
    /\ UNCHANGED <<config, now, lock, heap, store, admits, calls>>

\* one next() of the iterator: sum(1 for timestamp in request_log
\* if timestamp >= cutoff_time), then 'remaining'
LogsNext(t) ==
    /\ frame[t].pc = "logs_next"
    /\ frame' =
        IF frame[t].mutated
        THEN [frame EXCEPT ![t].pc = "raised", ![t].exc = "RuntimeError"]
        ELSE IF frame[t].n = 0
        THEN [frame EXCEPT ![t].pc = "logs_oldest",
                           ![t].stats = [requests_made |-> frame[t].acc,
                                         limit |-> limit,
                                         remaining |-> Max(0, limit - frame[t].acc)]]
        ELSE [frame EXCEPT ![t].n = @ - 1,
                           ![t].acc = IF Rec(t).log[Len(Rec(t).log) - frame[t].n + 1]
                                           >= frame[t].current_time - window_size
                                      THEN @ + 1 ELSE @]
    /\ UNCHANGED <<config, now, lock, heap, store, admits, calls>>

\* 'oldest_request': ... if request_log else None
LogsOldest(t) ==
    /\ frame[t].pc = "logs_oldest"
    /\ frame' =
        IF Rec(t).log # <<>>
        THEN [frame EXCEPT ![t].pc = "logs_index"]
        ELSE [frame EXCEPT ![t].pc = "return",
                           ![t].stats = [requests_made |-> frame[t].stats.requests_made,
                                         limit |-> frame[t].stats.limit,
                                         remaining |-> frame[t].stats.remaining,
                                         oldest_request |-> None]]
    /\ UNCHANGED <<config, now, lock, heap, store, admits, calls>>

\* request_log[0]
LogsIndex(t) ==
    /\ frame[t].pc = "logs_index"
    /\ frame' =
        IF Rec(t).log = <<>>
        THEN [frame EXCEPT ![t].pc = "raised", ![t].exc = "IndexError"]
        ELSE [frame EXCEPT ![t].pc = "return",
                           ![t].stats = [requests_made |-> frame[t].stats.requests_made,
                                         limit |-> frame[t].stats.limit,
                                         remaining |-> frame[t].stats.remaining,
                                         oldest_request |-> Head(Rec(t).log)]]
    /\ UNCHANGED <<config, now, lock, heap, store, admits, calls>>

\* ---- SlidingWindowCounterRateLimiter.is_allowed

\* a slide that carries current over whatever the distance of the windows
SwcSlideAlwaysCarries(t) ==
    /\ frame[t].pc = "swc_slide"
    /\ IF Rec(t).current_start # CurrentWindow(frame[t])
       THEN /\ heap' = [heap EXCEPT ![frame[t].ref].previous = Rec(t).current]
            /\ frame' = [frame EXCEPT ![t].pc = "swc_current"]
       ELSE /\ heap' = heap
            /\ frame' = [frame EXCEPT ![t].pc = "swc_admit"]
    /\ UNCHANGED <<config, now, lock, store, admits, calls>>

\* if window_data['current_start'] != current_window: previous = current
\* when the stored window is the one just before, else previous = 0
SwcSlide(t) ==
    /\ frame[t].pc = "swc_slide"
    /\ IF Rec(t).current_start # CurrentWindow(frame[t])
       THEN /\ heap' = [heap EXCEPT ![frame[t].ref].previous =
                            IF Rec(t).current_start = CurrentWindow(frame[t]) - 1
                            THEN Rec(t).current ELSE 0]
            /\ frame' = [frame EXCEPT ![t].pc = "swc_current"]
       ELSE /\ heap' = heap
            /\ frame' = [frame EXCEPT ![t].pc = "swc_admit"]
    /\ UNCHANGED <<config, now, lock, store, admits, calls>>

\* window_data['current'] = 0
SwcCurrent(t) ==
    /\ frame[t].pc = "swc_current"
    /\ heap' = [heap EXCEPT ![frame[t].ref].current = 0]
    /\ frame' = [frame EXCEPT ![t].pc = "swc_start"]
    /\ UNCHANGED <<config, now, lock, store, admits, calls>>

\* window_data['current_start'] = current_window
SwcStart(t) ==
    /\ frame[t].pc = "swc_start"
    /\ heap' = [heap EXCEPT ![frame[t].ref].current_start = CurrentWindow(frame[t])]
    /\ frame' = [frame EXCEPT ![t].pc = "swc_admit"]
    /\ UNCHANGED <<config, now, lock, store, admits, calls>>

\* weighted_count * window_size, where weighted_count = previous * weight +
\* current and weight = 1 - (current_time - current_window * window_size) / window_size
WeightedCount(previous, current, f) ==
    previous * (window_size - (f.current_time - CurrentWindow(f) * window_size))
        + current * window_size

\* weighted_count < self.limit, for weighted_count * window_size = wc
SwcBelowLimit(wc) ==
    IF window_size > 0 THEN wc < limit * window_size ELSE wc > limit * window_size

\* if weighted_count < self.limit: window_data['current'] += 1; return True
SwcAdmit(t) ==
    /\ frame[t].pc = "swc_admit"
    /\ Decide(t, SwcBelowLimit(WeightedCount(Rec(t).previous, Rec(t).current, frame[t])),
              [Rec(t) EXCEPT !.current = @ + 1])

\* ---- SlidingWindowCounterRateLimiter.get_stats

\* line 146 reads window_data['previous'] ...
SwcsPrev(t) ==
    /\ frame[t].pc = "swcs_prev"
    /\ frame' = [frame EXCEPT ![t].acc = Rec(t).previous, ![t].pc = "swcs_cur"]
    /\ UNCHANGED <<config, now, lock, heap, store, admits, calls>>

\* ... and then window_data['current']
SwcsCur(t) ==
    /\ frame[t].pc = "swcs_cur"
    /\ frame' = [frame EXCEPT
                    ![t].stats = [weighted_count |->
                                     WeightedCount(frame[t].acc, Rec(t).current, frame[t])],
                    ![t].pc = "swcs_cur2"]
    /\ UNCHANGED <<config, now, lock, heap, store, admits, calls>>

\* 'current_window_requests': window_data['current']
SwcsCur2(t) ==
    /\ frame[t].pc = "swcs_cur2"
    /\ frame' = [frame EXCEPT
                    ![t].stats = [weighted_count |-> frame[t].stats.weighted_count,
                                  current_window_requests |-> Rec(t).current],
                    ![t].pc = "swcs_prev2"]
    /\ UNCHANGED <<config, now, lock, heap, store, admits, calls>>

\* 'previous_window_requests': window_data['previous'], 'limit', and
\* 'remaining': max(0, self.limit - weighted_count), here times window_size
SwcsPrev2(t) ==
    /\ frame[t].pc = "swcs_prev2"
    /\ frame' = [frame EXCEPT
                    ![t].stats =
                        [weighted_count |-> frame[t].stats.weighted_count,
                         current_window_requests |-> frame[t].stats.current_window_requests,
                         previous_window_requests |-> Rec(t).previous,
                         limit |-> limit,
                         remaining |->
                            IF window_size > 0
                            THEN Max(0, limit * window_size - frame[t].stats.weighted_count)
                            ELSE Min(0, limit * window_size - frame[t].stats.weighted_count)],
                    ![t].pc = "return"]
    /\ UNCHANGED <<config, now, lock, heap, store, admits, calls>>

\* ---- TokenBucketRateLimiter.is_allowed

\* a refill that is not capped at the capacity
TbRefilledUncapped(rec, f) ==
    rec.tokens + (f.current_time - rec.last_refill) * refill_rate

\* min(self.capacity, bucket['tokens'] + time_passed * self.refill_rate)
TbRefilled(rec, f) ==
    Min(capacity * RateDen, rec.tokens + (f.current_time - rec.last_refill) * refill_rate)

\* bucket['tokens'] = min(...)
TbRefill(t) ==
    /\ frame[t].pc = "tb_refill"
    /\ heap' = [heap EXCEPT ![frame[t].ref].tokens = TbRefilled(Rec(t), frame[t])]
    /\ frame' = [frame EXCEPT ![t].pc = "tb_stamp"]
    /\ UNCHANGED <<config, now, lock, store, admits, calls>>

\* bucket['last_refill'] = current_time
TbStamp(t) ==
    /\ frame[t].pc = "tb_stamp"
    /\ heap' = [heap EXCEPT ![frame[t].ref].last_refill = frame[t].current_time]
    /\ frame' = [frame EXCEPT ![t].pc = "tb_admit"]
    /\ UNCHANGED <<config, now, lock, store, admits, calls>>

\* a comparison that wants more tokens than the request costs
TbAllowedStrict(rec, cost) == rec.tokens > cost * RateDen

\* bucket['tokens'] >= tokens_requested
TbAllowed(rec, cost) == rec.tokens >= cost * RateDen

\* if bucket['tokens'] >= tokens_requested: bucket['tokens'] -= tokens_requested
TbAdmit(t) ==
    /\ frame[t].pc = "tb_admit"
    /\ Decide(t, TbAllowed(Rec(t), frame[t].cost),
              [Rec(t) EXCEPT !.tokens = @ - frame[t].cost * RateDen])

\* ---- TokenBucketRateLimiter.get_stats

\* 'available_tokens': bucket['tokens'], 'capacity', 'refill_rate'
TbsTokens(t) ==
    /\ frame[t].pc = "tbs_tokens"
    /\ frame' = [frame EXCEPT ![t].stats = [available_tokens |-> Rec(t).tokens,
                                            capacity |-> capacity,
                                            refill_rate |-> refill_rate],
                              ![t].pc = "tbs_last"]
    /\ UNCHANGED <<config, now, lock, heap, store, admits, calls>>

\* 'last_refill': bucket['last_refill']
TbsLast(t) ==
    /\ frame[t].pc = "tbs_last"
    /\ frame' = [frame EXCEPT ![t].stats = [available_tokens |-> frame[t].stats.available_tokens,
                                            capacity |-> frame[t].stats.capacity,
                                            refill_rate |-> frame[t].stats.refill_rate,
                                            last_refill |-> Rec(t).last_refill],
                              ![t].pc = "return"]
    /\ UNCHANGED <<config, now, lock, heap, store, admits, calls>>

\* ---- LeakyBucketRateLimiter.is_allowed

\* a leak that removes one entry fewer than the elapsed time pays for
LbToLeakShort(rec, f) ==
    Max(0, Min(TruncDiv((f.current_time - rec.last_leak) * leak_rate, RateDen) - 1,
               Len(rec.queue)))

\* range(min(requests_to_leak, len(bucket['queue']))), where
\* requests_to_leak = int(time_passed * self.leak_rate)
LbToLeak(rec, f) ==
    Max(0, Min(TruncDiv((f.current_time - rec.last_leak) * leak_rate, RateDen),
               Len(rec.queue)))

LbLeak(t) ==
    /\ frame[t].pc = "lb_leak"
    /\ frame' = [frame EXCEPT ![t].n = LbToLeak(Rec(t), frame[t]), ![t].pc = "lb_pop"]
    /\ UNCHANGED <<config, now, lock, heap, store, admits, calls>>

\* bucket['queue'].popleft(), once per iteration of the for loop
LbPop(t) ==
    /\ frame[t].pc = "lb_pop"
    /\ IF frame[t].n > 0
       THEN /\ heap' = [heap EXCEPT ![frame[t].ref].queue = Tail(@)]
            /\ frame' = [frame EXCEPT ![t].n = @ - 1]
       ELSE /\ heap' = heap
            /\ frame' = [frame EXCEPT ![t].pc = "lb_stamp"]
    /\ UNCHANGED <<config, now, lock, store, admits, calls>>

\* bucket['last_leak'] = current_time
LbStamp(t) ==
    /\ frame[t].pc = "lb_stamp"
    /\ heap' = [heap EXCEPT ![frame[t].ref].last_leak = frame[t].current_time]
    /\ frame' = [frame EXCEPT ![t].pc = "lb_admit"]
    /\ UNCHANGED <<config, now, lock, store, admits, calls>>

LbAllowedOffByOne(rec) == Len(rec.queue) <= capacity

LbAllowed(rec) == Len(rec.queue) < capacity

\* if len(bucket['queue']) < self.capacity: bucket['queue'].append(current_time)
LbAdmit(t) ==
    /\ frame[t].pc = "lb_admit"
    /\ Decide(t, LbAllowed(Rec(t)),
              [Rec(t) EXCEPT !.queue = Append(@, frame[t].current_time)])

\* ---- LeakyBucketRateLimiter.get_stats

\* 'queue_size': len(bucket['queue']), 'capacity', 'leak_rate'
LbsSize(t) ==
    /\ frame[t].pc = "lbs_size"
    /\ frame' = [frame EXCEPT ![t].stats = [queue_size |-> Len(Rec(t).queue),
                                            capacity |-> capacity,
                                            leak_rate |-> leak_rate],
                              ![t].pc = "lbs_last"]
    /\ UNCHANGED <<config, now, lock, heap, store, admits, calls>>

\* 'last_leak': bucket['last_leak']
LbsLast(t) ==
    /\ frame[t].pc = "lbs_last"
    /\ frame' = [frame EXCEPT ![t].stats = [queue_size |-> frame[t].stats.queue_size,
                                            capacity |-> frame[t].stats.capacity,
                                            leak_rate |-> frame[t].stats.leak_rate,
                                            last_leak |-> Rec(t).last_leak],
                              ![t].pc = "return"]
    /\ UNCHANGED <<config, now, lock, heap, store, admits, calls>>

\* ---- the methods, step by step

\* a step of an is_allowed body, under the lock
IsAllowedStep(t) ==
    \/ FwWindow(t) \/ FwStart(t) \/ FwAdmit(t)
    \/ LogPurge(t) \/ LogAdmit(t)
    \/ SwcSlide(t) \/ SwcCurrent(t) \/ SwcStart(t) \/ SwcAdmit(t)
    \/ TbRefill(t) \/ TbStamp(t) \/ TbAdmit(t)
    \/ LbLeak(t) \/ LbPop(t) \/ LbStamp(t) \/ LbAdmit(t)

\* a step of a get_stats body, under no lock
GetStatsStep(t) ==
    \/ FwsMade(t) \/ FwsRemaining(t) \/ FwsStart(t)
    \/ LogsIter(t) \/ LogsNext(t) \/ LogsOldest(t) \/ LogsIndex(t)
    \/ SwcsPrev(t) \/ SwcsCur(t) \/ SwcsCur2(t) \/ SwcsPrev2(t)
    \/ TbsTokens(t) \/ TbsLast(t)
    \/ LbsSize(t) \/ LbsLast(t)

\* tokens_requested of the callers that follow the contract
Costs == 1 .. MaxCost

\* ---- callers of is_allowed and get_stats, any interleaving

Next ==
    \/ Tick
    \/ \E t \in Threads, k \in Keys, c \in Costs :
          /\ limiter = "TokenBucket" \/ c = 1
          /\ IsAllowedCall(t, k, c)
    \/ \E t \in Threads, k \in Keys : GetStatsCall(t, k)
    \/ \E t \in Threads : Lookup(t)
    \/ \E t \in Threads : SetItem(t)
    \/ \E t \in Threads : IsAllowedStep(t)
    \/ \E t \in Threads : GetStatsStep(t)
    \/ \E t \in Threads : Release(t)
    \/ \E t \in Threads : Return(t)
    \/ \E t \in Threads : Unwind(t)

Spec == Init /\ [][Next]_vars

\* ---- callers of is_allowed only

NextAllowed ==
    \/ Tick
    \/ \E t \in Threads, k \in Keys, c \in Costs :
          /\ limiter = "TokenBucket" \/ c = 1
          /\ IsAllowedCall(t, k, c)
    \/ \E t \in Threads : Lookup(t)
    \/ \E t \in Threads : SetItem(t)
    \/ \E t \in Threads : IsAllowedStep(t)
    \/ \E t \in Threads : Release(t)

SpecAllowed == Init /\ [][NextAllowed]_vars

\* ---- callers that pass any tokens_requested to the token bucket

AnyCosts == {-1, 0} \cup Costs

InitToken ==
    /\ Constructed("TokenBucket")
    /\ Fresh

NextAnyCost ==
    \/ Tick
    \/ \E t \in Threads, k \in Keys, c \in AnyCosts : IsAllowedCall(t, k, c)
    \/ \E t \in Threads : Lookup(t)
    \/ \E t \in Threads : SetItem(t)
    \/ \E t \in Threads : TbRefill(t) \/ TbStamp(t) \/ TbAdmit(t)
    \/ \E t \in Threads : Release(t)

SpecAnyCost == InitToken /\ [][NextAnyCost]_vars

\* ---- construction with any arguments

CtorArgs == {-1, 0, 1}

InitCtor ==
    /\ limiter = "none"
    /\ limit = 0
    /\ window_size = 0
    /\ capacity = 0
    /\ refill_rate = 0
    /\ leak_rate = 0
    /\ Fresh

\* __init__(limit, window_size) of the three window limiters,
\* __init__(capacity, refill_rate) and __init__(capacity, leak_rate) of the
\* two buckets: the arguments are stored as given
Construct(cls, a, b) ==
    /\ limiter = "none"
    /\ limiter' = cls
    /\ limit' = (IF cls \in {"FixedWindow", "SlidingWindowLog", "SlidingWindowCounter"}
                 THEN a ELSE 0)
    /\ window_size' = (IF cls \in {"FixedWindow", "SlidingWindowLog", "SlidingWindowCounter"}
                       THEN b ELSE 0)
    /\ capacity' = (IF cls \in {"TokenBucket", "LeakyBucket"} THEN a ELSE 0)
    /\ refill_rate' = (IF cls = "TokenBucket" THEN b ELSE 0)
    /\ leak_rate' = (IF cls = "LeakyBucket" THEN b ELSE 0)
    /\ UNCHANGED <<now, lock, heap, store, frame, admits, calls>>

NextCtor ==
    \/ \E cls \in Classes, a \in CtorArgs, b \in CtorArgs : Construct(cls, a, b)
    \/ Tick
    \/ \E t \in Threads, k \in Keys : IsAllowedCall(t, k, 1)
    \/ \E t \in Threads : Lookup(t)
    \/ \E t \in Threads : SetItem(t)
    \/ \E t \in Threads : IsAllowedStep(t)
    \/ \E t \in Threads : Release(t)
    \/ \E t \in Threads : Unwind(t)

SpecCtor == InitCtor /\ [][NextCtor]_vars

\* ---- callers of the sliding window counter's is_allowed, over a clock
\* that runs into the third window

Horizon == 2 * CfgWindow

TickLong ==
    /\ now < Horizon
    /\ now' = now + 1
    /\ UNCHANGED <<config, lock, heap, store, frame, admits, calls>>

InitCounter ==
    /\ Constructed("SlidingWindowCounter")
    /\ Fresh

NextCounter ==
    \/ TickLong
    \/ \E t \in Threads, k \in Keys : IsAllowedCall(t, k, 1)
    \/ \E t \in Threads : Lookup(t)
    \/ \E t \in Threads : SetItem(t)
    \/ \E t \in Threads : SwcSlide(t) \/ SwcCurrent(t) \/ SwcStart(t) \/ SwcAdmit(t)
    \/ \E t \in Threads : Release(t)

SpecCounter == InitCounter /\ [][NextCounter]_vars

\* ---- what the claims speak of

\* the record key k maps to
Mapped(k) == heap[store[k]]

\* the admitted calls of key k whose clock reading fell in window w
AdmittedInWindow(k, w) ==
    Cardinality({i \in DOMAIN admits[k] : FloorDiv(admits[k][i], window_size) = w})

\* the admitted calls of key k with a timestamp in [lo, hi]
AdmittedBetween(k, lo, hi) ==
    Cardinality({i \in DOMAIN admits[k] : lo <= admits[k][i] /\ admits[k][i] <= hi})

IsSuffix(q, h) ==
    /\ Len(q) <= Len(h)
    /\ q = SubSeq(h, Len(h) - Len(q) + 1, Len(h))

\* the threads whose is_allowed has decided and is about to return
Returning == {t \in Threads : frame[t].op = "is_allowed" /\ frame[t].pc = "release"}

\* the time-based advancement of record pre for a call that read the
\* clock as ct, stated from sections 4.1 to 4.5
ExpectedAdvance(pre, ct) ==
    CASE limiter = "FixedWindow" ->
            IF pre.window_start # FloorDiv(ct, window_size)
            THEN [count |-> 0, window_start |-> FloorDiv(ct, window_size)]
            ELSE pre
      [] limiter = "SlidingWindowLog" ->
            [log |-> SelectSeq(pre.log, LAMBDA ts : ts >= ct - window_size)]
      [] limiter = "SlidingWindowCounter" ->
            IF pre.current_start = FloorDiv(ct, window_size)
            THEN pre
            ELSE [current |-> 0,
                  previous |-> IF pre.current_start + 1 = FloorDiv(ct, window_size)
                               THEN pre.current ELSE 0,
                  current_start |-> FloorDiv(ct, window_size)]
      [] limiter = "TokenBucket" ->
            [tokens |-> IF pre.tokens + (ct - pre.last_refill) * refill_rate
                             > capacity * RateDen
                        THEN capacity * RateDen
                        ELSE pre.tokens + (ct - pre.last_refill) * refill_rate,
             last_refill |-> ct]
      [] limiter = "LeakyBucket" ->
            LET due == (ct - pre.last_leak) * leak_rate
                gone == IF due < RateDen THEN 0
                        ELSE IF due \div RateDen > Len(pre.queue) THEN Len(pre.queue)
                        ELSE due \div RateDen
            IN  [queue |-> SubSeq(pre.queue, gone + 1, Len(pre.queue)),
                 last_leak |-> ct]

\* the side effect of admitting the call of frame f on the advanced record
ExpectedCommit(adv, f) ==
    CASE limiter = "FixedWindow" -> [adv EXCEPT !.count = @ + 1]
      [] limiter = "SlidingWindowLog" -> [adv EXCEPT !.log = Append(@, f.current_time)]
      [] limiter = "SlidingWindowCounter" -> [adv EXCEPT !.current = @ + 1]
      [] limiter = "TokenBucket" -> [adv EXCEPT !.tokens = @ - f.cost * RateDen]
      [] limiter = "LeakyBucket" -> [adv EXCEPT !.queue = Append(@, f.current_time)]

\* C1: fixed window, callers of is_allowed and get_stats interleaved: for
\* every key and every window index, at most limit calls were admitted
\* with a clock reading in that window.
FixedWindowAtMostLimit ==
    limiter = "FixedWindow" =>
        \A k \in Keys : \A w \in 0 .. FloorDiv(MaxTime, window_size) :
            AdmittedInWindow(k, w) <= limit

\* C2: sliding window log, callers of is_allowed only: for every admitted
\* call at time t, at most limit admitted calls of its key have a timestamp
\* in [t - window_size, t]; and when an is_allowed call that read the clock
\* as now returns, every stored timestamp lies in [now - window_size, now].
LogWindowBound ==
    limiter = "SlidingWindowLog" =>
        /\ \A k \in Keys : \A i \in DOMAIN admits[k] :
              AdmittedBetween(k, admits[k][i] - window_size, admits[k][i]) <= limit
        /\ \A t \in Returning : \A i \in DOMAIN Rec(t).log :
              /\ frame[t].current_time - window_size <= Rec(t).log[i]
              /\ Rec(t).log[i] <= frame[t].current_time

\* C2 witness: an admitted call that first purged an expired timestamp
LogPurgedThenAdmitted ==
    /\ limiter = "SlidingWindowLog"
    /\ \E t \in Returning :
          /\ frame[t].ret
          /\ frame[t].pre.log # <<>>
          /\ Head(frame[t].pre.log) < frame[t].current_time - window_size
          /\ Len(Rec(t).log) = limit

\* C3: token bucket, callers of is_allowed with a positive cost: every
\* key's tokens lie in [0, capacity].
TokensWithinCapacity ==
    limiter = "TokenBucket" =>
        \A k \in DOMAIN store :
            0 <= Mapped(k).tokens /\ Mapped(k).tokens <= capacity * RateDen

\* the queue of every leaky bucket is at most capacity long and is a
\* suffix of the key's admitted timestamps, in their order
LeakyQueueBounded ==
    limiter = "LeakyBucket" =>
        \A k \in DOMAIN store :
            /\ Len(Mapped(k).queue) <= capacity
            /\ IsSuffix(Mapped(k).queue, admits[k])

\* a step changes a leaky bucket's queue only by removing its first entry
\* or by appending the caller's clock reading
LeakyQueueStep ==
    limiter = "LeakyBucket" =>
        \A id \in DOMAIN heap :
            \/ heap'[id].queue = heap[id].queue
            \/ heap[id].queue # <<>> /\ heap'[id].queue = Tail(heap[id].queue)
            \/ \E t \in Threads : heap'[id].queue = Append(heap[id].queue, frame[t].current_time)

RejectionOnlyAdvances ==
    \A t \in Returning :
        Rec(t) = IF frame[t].ret
                 THEN ExpectedCommit(ExpectedAdvance(frame[t].pre, frame[t].current_time),
                                     frame[t])
                 ELSE ExpectedAdvance(frame[t].pre, frame[t].current_time)

\* C5 witness: a rejected call whose advancement changed the record
RejectedButAdvanced ==
    \E t \in Returning : ~frame[t].ret /\ Rec(t) # frame[t].pre

\* C6: every get_stats snapshot is the key's state at one point of the
\* serialized order of is_allowed calls; for the fixed window, every
\* snapshot has requests_made + remaining = limit.
FixedWindowSnapshotConsistent ==
    limiter = "FixedWindow" =>
        \A t \in Threads :
            frame[t].op = "get_stats" /\ frame[t].pc = "return" =>
                frame[t].stats.requests_made + frame[t].stats.remaining = limit

\* a step taken by a thread inside get_stats
GetStatsMoves ==
    \E t \in Threads : frame[t].op = "get_stats" /\ frame'[t].pc # frame[t].pc

\* C7: get_stats never mutates limiter state: no step of a get_stats call
\* changes the set of keys of the mapping or the record of any key.
GetStatsMutatesNothing ==
    [][GetStatsMoves =>
          /\ DOMAIN store' = DOMAIN store
          /\ \A k \in DOMAIN store : heap'[store'[k]] = heap[store[k]]]_vars

\* C8: every is_allowed and get_stats call returns a value without
\* raising, also when get_stats runs concurrently with is_allowed.
NoCallRaises ==
    \A t \in Threads : frame[t].pc # "raised"

\* C9: a limiter constructed with a non-positive limit, capacity,
\* window_size, refill_rate or leak_rate never exists.
ConstructedOnlyValid ==
    /\ limiter \in {"FixedWindow", "SlidingWindowLog", "SlidingWindowCounter"} =>
          limit > 0 /\ window_size > 0
    /\ limiter = "TokenBucket" => capacity > 0 /\ refill_rate > 0
    /\ limiter = "LeakyBucket" => capacity > 0 /\ leak_rate > 0

\* C10: token bucket: an is_allowed call with a zero or negative cost is
\* not admitted and never leaves the key with more tokens than capacity.
NonPositiveCostRefused ==
    \A t \in Returning :
        frame[t].cost <= 0 =>
            ~frame[t].ret /\ Rec(t).tokens <= capacity * RateDen

\* C11: token bucket, whatever calls came before and whatever the clock
\* reads: an is_allowed call that asks for more tokens than the capacity
\* returns False.
OversizedCostRejected ==
    limiter = "TokenBucket" =>
        \A t \in Returning : frame[t].cost > capacity => ~frame[t].ret

\* C11 witness: a call for more than the capacity that found a bucket
\* holding more than the capacity and was rejected
OversizedCostOnOverfullBucket ==
    /\ limiter = "TokenBucket"
    /\ \E t \in Returning :
          /\ frame[t].cost > capacity
          /\ frame[t].pre.tokens > capacity * RateDen
          /\ ~frame[t].ret

\* C12: every strategy with a limit or capacity of at least 1: the first
\* is_allowed call, of cost 1, for a key the limiter has never seen
\* returns True, whatever the clock reads.
FirstCallAdmitted ==
    \A t \in Returning :
        frame[t].missed /\ frame[t].cost = 1 /\ (limit >= 1 \/ capacity >= 1) =>
            frame[t].ret

\* C13: fixed window, limit L: a call is admitted exactly when fewer than
\* L calls of its key were admitted before it in its own window, whatever
\* the window before held: L calls in window w and L calls in window w + 1
\* are all admitted, however close in time, and the call after the L-th
\* of a window is rejected.
FixedWindowBurst ==
    limiter = "FixedWindow" =>
        \A t \in Returning :
            frame[t].ret <=>
                AdmittedInWindow(frame[t].key, CurrentWindow(frame[t]))
                    - (IF frame[t].ret THEN 1 ELSE 0) < limit

\* C13 witness: limit calls admitted in a window, limit calls admitted in
\* the next window less than window_size later, and one more call
\* rejected there
DoubleBurstThenRejected ==
    /\ limiter = "FixedWindow"
    /\ \E t \in Returning :
          LET k == frame[t].key
              w == CurrentWindow(frame[t])
          IN  /\ ~frame[t].ret
              /\ AdmittedInWindow(k, w - 1) = limit
              /\ AdmittedInWindow(k, w) = limit
              /\ \E i, j \in DOMAIN admits[k] :
                    /\ FloorDiv(admits[k][i], window_size) = w - 1
                    /\ FloorDiv(admits[k][j], window_size) = w
                    /\ admits[k][j] - admits[k][i] < window_size

\* the call of frame f comes at least units / rate after the stamp its
\* key's record carried, rate being a number of RateDen-ths per tick
WaitedFor(f, stamp, units, rate) ==
    (f.current_time - stamp) * rate >= units * RateDen

\* C14: token bucket, any reachable bucket of a key: an is_allowed call
\* for capacity tokens that comes at least capacity / refill_rate after
\* the key's last is_allowed call returns True and leaves tokens = 0.
FullRefillAdmitsCapacity ==
    limiter = "TokenBucket" =>
        \A t \in Returning :
            /\ frame[t].cost = capacity
            /\ WaitedFor(frame[t], frame[t].pre.last_refill, capacity, refill_rate)
            => frame[t].ret /\ Rec(t).tokens = 0

\* C14 witness: a call for capacity tokens that found a bucket below
\* capacity after such a wait, and emptied it
RefilledFromBelowCapacity ==
    /\ limiter = "TokenBucket"
    /\ \E t \in Returning :
          /\ frame[t].cost = capacity
          /\ WaitedFor(frame[t], frame[t].pre.last_refill, capacity, refill_rate)
          /\ frame[t].pre.tokens < capacity * RateDen
          /\ frame[t].ret
          /\ Rec(t).tokens = 0

\* C15: leaky bucket, any reachable queue of a key, a full one included:
\* an is_allowed call that comes at least capacity / leak_rate after the
\* key's last is_allowed call removes every queued entry and admits the
\* request, which leaves a queue holding that request alone.
LeakyDrainsAfterWait ==
    limiter = "LeakyBucket" =>
        \A t \in Returning :
            WaitedFor(frame[t], frame[t].pre.last_leak, capacity, leak_rate) =>
                frame[t].ret /\ Rec(t).queue = <<frame[t].current_time>>

\* C15 witness: such a call that found the queue full
FullQueueDrained ==
    /\ limiter = "LeakyBucket"
    /\ \E t \in Returning :
          /\ WaitedFor(frame[t], frame[t].pre.last_leak, capacity, leak_rate)
          /\ Len(frame[t].pre.queue) = capacity
          /\ frame[t].ret
          /\ Rec(t).queue = <<frame[t].current_time>>

\* weighted count wc, held times window_size, lies between current and
\* current + previous
WeightedBetween(wc, current, previous) ==
    /\ current * window_size <= wc
    /\ wc <= (current + previous) * window_size

\* the counters of every sliding window counter record are between 0 and
\* limit
SwcCountersWithinLimit ==
    \A id \in DOMAIN heap :
        /\ 0 <= heap[id].current /\ heap[id].current <= limit
        /\ 0 <= heap[id].previous /\ heap[id].previous <= limit

\* the weighted count is_allowed compares with the limit lies between the
\* record's current and current + previous
SwcAdmissionWeighted ==
    \A t \in Threads :
        frame[t].pc = "swc_admit" =>
            WeightedBetween(WeightedCount(Rec(t).previous, Rec(t).current, frame[t]),
                            Rec(t).current, Rec(t).previous)

\* the weighted count of every get_stats snapshot lies between the
\* current and current + previous of that snapshot
SwcSnapshotWeighted ==
    \A t \in Threads :
        frame[t].op = "get_stats" /\ frame[t].pc = "return" =>
            WeightedBetween(frame[t].stats.weighted_count,
                            frame[t].stats.current_window_requests,
                            frame[t].stats.previous_window_requests)

\* C16: sliding window counter, every reachable state: the weighted count
\* computed by is_allowed and the one returned by get_stats lie between
\* current and current + previous, and current and previous lie between
\* 0 and limit.
SwcWeightedCountBounded ==
    limiter = "SlidingWindowCounter" =>
        /\ SwcCountersWithinLimit
        /\ SwcAdmissionWeighted
        /\ SwcSnapshotWeighted

\* key k has a record, and the step changes the record or takes it away
RecordChanges(k) ==
    /\ k \in DOMAIN store
    /\ \/ k \notin DOMAIN store'
       \/ heap'[store'[k]] # heap[store[k]]

\* the step gives key k a record, or changes or removes the one it has
KeyStateChanges(k) ==
    \/ k \notin DOMAIN store /\ k \in DOMAIN store'
    \/ RecordChanges(k)

\* the step belongs to a call made with key k: the call moves on, or the
\* record it holds changes
StepOfCallOn(k) ==
    \E t \in Threads :
        /\ frame[t].pc # "idle"
        /\ frame[t].key = k
        /\ \/ frame'[t] # frame[t]
           \/ /\ frame[t].ref \in DOMAIN heap
              /\ heap'[frame[t].ref] # heap[frame[t].ref]

\* whether the record adv, advanced to the clock reading of the call of
\* frame f, admits that call
AdmitsCall(adv, f) ==
    CASE limiter = "FixedWindow" -> FwAllowed(adv)
      [] limiter = "SlidingWindowLog" -> LogAllowed(adv)
      [] limiter = "SlidingWindowCounter" ->
            SwcBelowLimit(WeightedCount(adv.previous, adv.current, f))
      [] limiter = "TokenBucket" -> TbAllowed(adv, f.cost)
      [] limiter = "LeakyBucket" -> LbAllowed(adv)

\* the outcome of an is_allowed call is a function of the record it
\* found for its key, of its clock reading and of its cost
OutcomeFromOwnRecord ==
    \A t \in Returning :
        frame[t].ret = AdmitsCall(ExpectedAdvance(frame[t].pre, frame[t].current_time),
                                  frame[t])

\* C17: every strategy, is_allowed and get_stats callers interleaved: the
\* mapping and the record of a key change only in steps of calls made
\* with that key, and the outcome of an is_allowed call depends on its
\* own key's record, its clock reading and its cost alone; so calls on
\* other keys change neither a key's state nor the outcomes of its calls.
KeysIndependent ==
    /\ [](OutcomeFromOwnRecord)
    /\ [][\A k \in Keys : KeyStateChanges(k) => StepOfCallOn(k)]_vars

\* C17 witness: an admitted call returns and a get_stats snapshot of the
\* same key is complete, while another key holds admissions of its own
CallsBesideAnotherKey ==
    \E t \in Returning, s \in Threads, k \in Keys :
        /\ k # frame[t].key
        /\ frame[t].ret
        /\ frame[s].op = "get_stats" /\ frame[s].pc = "return"
        /\ frame[s].key = frame[t].key
        /\ k \in DOMAIN store
        /\ admits[k] # <<>>

\* the rollover of the record pre that a call in window w found, as the
\* record rec shows it
RolledOver(pre, rec, w) ==
    /\ rec.current_start = w
    /\ pre.current_start = w - 1 => rec.previous = pre.current
    /\ pre.current_start # w /\ pre.current_start # w - 1 => rec.previous = 0

\* C18: sliding window counter: after every is_allowed call in window w
\* the record has current_start = w; a call that found current_start =
\* w - 1 leaves previous = the current it found, a call that found any
\* other index than w or w - 1 leaves previous = 0, and in both cases
\* current is 0 when the admission check is made.
SwcRollover ==
    limiter = "SlidingWindowCounter" =>
        /\ \A t \in Returning :
              /\ RolledOver(frame[t].pre, Rec(t), CurrentWindow(frame[t]))
              /\ frame[t].pre.current_start # CurrentWindow(frame[t]) =>
                    Rec(t).current = (IF frame[t].ret THEN 1 ELSE 0)
        /\ \A t \in Threads :
              frame[t].pc = "swc_admit" =>
                  /\ RolledOver(frame[t].pre, Rec(t), CurrentWindow(frame[t]))
                  /\ frame[t].pre.current_start # CurrentWindow(frame[t]) =>
                        Rec(t).current = 0

\* C18 witness: a call that found a count from two or more windows ago
\* and dropped it
IdleWindowsDropPrevious ==
    /\ limiter = "SlidingWindowCounter"
    /\ \E t \in Returning :
          /\ frame[t].pre.current > 0
          /\ frame[t].pre.current_start + 2 <= CurrentWindow(frame[t])
          /\ Rec(t).previous = 0

\* C19: leaky bucket, however the calls are spaced: an is_allowed call
\* that finds the queue full and comes at least 1 / leak_rate after the
\* queue became full (the time of its last entry) removes the oldest
\* entry and is admitted, whatever rejected calls were made in between.
LeakyDrainsAtLeakRate ==
    limiter = "LeakyBucket" =>
        \A t \in Returning :
            /\ Len(frame[t].pre.queue) = capacity
            /\ WaitedFor(frame[t], frame[t].pre.queue[Len(frame[t].pre.queue)],
                         1, leak_rate)
            => /\ frame[t].ret
               /\ Head(Rec(t).queue) # Head(frame[t].pre.queue)

\* the 'remaining' that get_stats, run on its own at clock reading ct,
\* reports for a key whose record is rec: max(0, limit - count), max(0,
\* limit - active_requests), and max(0, limit - weighted_count) times
\* window_size
Remaining(rec, ct) ==
    CASE limiter = "FixedWindow" -> Max(0, limit - rec.count)
      [] limiter = "SlidingWindowLog" ->
            Max(0, limit - Len(SelectSeq(rec.log, LAMBDA ts : ts >= ct - window_size)))
      [] limiter = "SlidingWindowCounter" ->
            Max(0, limit * window_size
                     - WeightedCount(rec.previous, rec.current, [current_time |-> ct]))

\* C20: fixed window, sliding window log, sliding window counter: an
\* is_allowed call returns True exactly when get_stats at the same
\* instant, on the record the call found, reports remaining > 0, also
\* after window boundaries have passed since the key's last call.
RemainingTellsAdmission ==
    limiter \in {"FixedWindow", "SlidingWindowLog", "SlidingWindowCounter"} =>
        \A t \in Returning :
            frame[t].ret <=> Remaining(frame[t].pre, frame[t].current_time) > 0
====
